---- MODULE Spec2Model ----
(***************************************************************************)
(* State-machine model of the fastapi-k8s HTTP service                     *)
(* (src/src/fastapi_k8s/main.py): readiness flag, key-value proxy, visit   *)
(* counter, cookie sessions and the CPU stress endpoint, over an external  *)
(* Redis store whose calls may fail.                                       *)
(***************************************************************************)
EXTENDS Integers, FiniteSets, Sequences, TLC

VARIABLES
    store,          \* the external store: a function from the existing keys to [val, exp]
    now,            \* wall clock, in seconds
    _ready,         \* main.py:99, the process-wide readiness flag
    _redis_client,  \* main.py:32, the lazily created store handle
    req,            \* the request handled last
    resp,           \* the response to it
    calls,          \* outcome of each store call that request made, in order
    inflight,       \* per worker: a /visits request whose store call is done, response not yet sent
    issued,         \* tokens secrets.token_hex has produced so far
    sess,           \* history: per token, the successful login that issued it, and its logout
    lastPost,       \* history: per kv key, the value of the last POST answered 200
    returned,       \* history: the counts the 200 responses of /visits carried, in response order
    stress,         \* the /stress request in progress (pc, n, seconds, start, end)
    conn            \* per thread: its position in _get_redis() and its locals; handles built

vars == <<store, now, _ready, _redis_client, req, resp, calls, inflight, issued,
          sess, lastPost, returned, stress, conn>>

(***************************************************************************)
(* Program constants and model bounds                                      *)
(***************************************************************************)
MAX_STRESS_SECONDS == 30
SESSION_TTL == 3600
NoExp == -1

TickStep == 1800       \* seconds the clock advances between requests
MaxTime == 3700        \* the clock stops advancing here
MaxVisits == 3         \* store increments of the visit counter
StressSlack == 3       \* /stress takes seconds in -StressSlack .. MAX_STRESS_SECONDS + StressSlack
StressHorizon == 34    \* a /stress request starts only if it can finish by then

USERS == [admin |-> "admin", user |-> "user"]
Usernames == {"admin", "user", "nobody"}
Passwords == {"admin", "user", "wrong"}
Tokens == {"t1", "t2"}
NoCookie == ""
KvNames == {"a", "t1"}
KvValues == {"first", "second"}
Workers == {"w1", "w2"}
Client == "redis.Redis"
None == "None"

(***************************************************************************)
(* The store (Redis) as the program uses it: get/set/incr/delete/expire on *)
(* namespaced keys. A key is a pair <<namespace, name>>.                   *)
(***************************************************************************)
VisitsKey == <<"visits", "">>
KvKey_shared(key) == <<"kv", "">>

KvKey(key) == <<"kv", key>>
SessionKey(session_id) == <<"session", session_id>>

Live(s, k, t) == k \in DOMAIN s /\ (s[k].exp = NoExp \/ t < s[k].exp)

Put(s, k, e) == [x \in DOMAIN s \cup {k} |-> IF x = k THEN e ELSE s[x]]

RedisDelete(s, k) == [x \in DOMAIN s \ {k} |-> s[x]]

RedisSet(s, k, v) == Put(s, k, [val |-> v, exp |-> NoExp])

RedisExpire(s, k, ttl, t) ==
    IF ~Live(s, k, t) THEN s
    ELSE IF ttl <= 0 THEN RedisDelete(s, k)
    ELSE Put(s, k, [val |-> s[k].val, exp |-> t + ttl])

RedisIncr_reset(s, k, t) == Put(s, k, [val |-> 1, exp |-> NoExp])

RedisIncr(s, k, t) ==
    IF Live(s, k, t) THEN Put(s, k, [val |-> s[k].val + 1, exp |-> s[k].exp])
    ELSE Put(s, k, [val |-> 1, exp |-> NoExp])

\* Store-side expiration: the keys whose time to live has elapsed are gone.
Purge(s, t) == [x \in {k \in DOMAIN s : Live(s, k, t)} |-> s[x]]

(***************************************************************************)
(* Outcomes of one store call. The client is built with a 2 s connect and  *)
(* operation timeout; a call that times out may or may not have been       *)
(* applied by the store. redis.TimeoutError and redis.ResponseError are    *)
(* RedisError but not redis.ConnectionError.                               *)
(***************************************************************************)
Ok == [exc |-> "ok", applied |-> TRUE]
Faults == {Ok,
           [exc |-> "ConnectionError", applied |-> FALSE],
           [exc |-> "TimeoutError", applied |-> FALSE],
           [exc |-> "TimeoutError", applied |-> TRUE],
           [exc |-> "ResponseError", applied |-> FALSE]}

Failed(cs) == \E i \in DOMAIN cs : cs[i] # "ok"

Raised(cs) == IF cs # <<>> /\ cs[Len(cs)] # "ok" THEN cs[Len(cs)] ELSE "ok"

\* if _redis_client is None
NeedsHandle_always(c) == TRUE

NeedsHandle(c) == c = None

_get_redis(c) == IF NeedsHandle(c) THEN Client ELSE c

\* The threads of the process: the event loop, which runs the async handlers,
\* and the pool threads, which run the sync dependency get_current_user.
Threads == {"loop", "pool1", "pool2"}

\* The objects successive calls of redis.Redis(...) return.
HandleIds == <<Client, "redis.Redis#2", "redis.Redis#3", "redis.Redis#4">>

(***************************************************************************)
(* Requests and responses                                                  *)
(***************************************************************************)
Request(ep) ==
    [ep |-> ep, cookie |-> NoCookie, key |-> "", value |-> "",
     username |-> "", password |-> "", seconds |-> 0]

Response(ep, status, body) ==
    [ep |-> ep, status |-> status, body |-> body, username |-> "", key |-> "",
     value |-> "", visits |-> 0, stressed_seconds |-> 0,
     set_cookie |-> NoCookie, delete_cookie |-> FALSE]

NoRequest == Request("")
NoResponse == Response("", 0, "")

\* except redis.ConnectionError -> 503; except Exception -> 500 (visits, kv_get, kv_set)
StoreErrorStatus_always500(exc) == 500

StoreErrorStatus(exc) == IF exc = "ConnectionError" THEN 503 ELSE 500

StoreErrorBody(exc) == IF exc = "ConnectionError" THEN "redis unavailable" ELSE exc

\* login catches redis.ConnectionError alone; anything else leaves the handler
\* and the framework answers 500.
LoginErrorStatus(exc) == IF exc = "ConnectionError" THEN 503 ELSE 500

(***************************************************************************)
(* Session helpers                                                         *)
(***************************************************************************)
\* json.dumps({"username": username}) and json.loads of it
Dumps(username) == <<"json", "username", username>>
Loads(data) == [username |-> data[3]]

NoSession == [username |-> None]

_create_session_noexpire(s, username, session_id, t, f1, f2) ==
    [store |-> IF f1.applied
               THEN RedisSet(s, SessionKey(session_id), Dumps(username)) ELSE s,
     calls |-> IF f1.exc # "ok" THEN <<f1.exc>> ELSE <<"ok", f2.exc>>]

\* r.set(key, json) then r.expire(key, SESSION_TTL); f1, f2 are the outcomes
\* of the two calls. The second call is made only if the first returned.
_create_session(s, username, session_id, t, f1, f2) ==
    LET s1 == IF f1.applied
              THEN RedisSet(s, SessionKey(session_id), Dumps(username)) ELSE s
        s2 == IF f2.applied
              THEN RedisExpire(s1, SessionKey(session_id), SESSION_TTL, t) ELSE s1
    IN  IF f1.exc # "ok" THEN [store |-> s1, calls |-> <<f1.exc>>]
        ELSE [store |-> s2, calls |-> <<"ok", f2.exc>>]

\* r.get(key); None if absent, else the decoded record
_get_session(s, session_id, t) ==
    IF ~Live(s, SessionKey(session_id), t) THEN NoSession
    ELSE Loads(s[SessionKey(session_id)].val)

_delete_session_noop(s, session_id) == s

_delete_session(s, session_id) == RedisDelete(s, SessionKey(session_id))

\* The dependency of GET /me: the response it leads to. No store error is caught.
get_current_user(s, session_id, t, f) ==
    IF session_id = NoCookie
    THEN [resp |-> Response("me", 401, "not authenticated"), calls |-> <<>>]
    ELSE IF f.exc # "ok"
    THEN [resp |-> Response("me", 500, f.exc), calls |-> <<f.exc>>]
    ELSE IF _get_session(s, session_id, t) = NoSession
    THEN [resp |-> Response("me", 401, "session expired"), calls |-> <<"ok">>]
    ELSE [resp |-> [Response("me", 200, "") EXCEPT
                      !.username = _get_session(s, session_id, t).username],
          calls |-> <<"ok">>]

ValidCredentials_useronly(username, password) == username \in DOMAIN USERS

ValidCredentials(username, password) ==
    username \in DOMAIN USERS /\ USERS[username] = password

(***************************************************************************)
(* The handlers, as functions of the store, the clock, the request and the *)
(* outcomes of the store calls: the response, the store after, the calls.  *)
(***************************************************************************)
visits(s, t, f) ==
    LET s1 == IF f.applied THEN RedisIncr(s, VisitsKey, t) ELSE s
    IN  [store |-> s1, calls |-> <<f.exc>>,
         resp |-> IF f.exc = "ok"
                  THEN [Response("visits", 200, "") EXCEPT !.visits = s1[VisitsKey].val]
                  ELSE Response("visits", StoreErrorStatus(f.exc), StoreErrorBody(f.exc))]

kv_get(s, key, t, f) ==
    [store |-> s, calls |-> <<f.exc>>,
     resp |-> IF f.exc # "ok"
              THEN Response("kv_get", StoreErrorStatus(f.exc), StoreErrorBody(f.exc))
              ELSE IF ~Live(s, KvKey(key), t)
              THEN Response("kv_get", 404, "key not found")
              ELSE [Response("kv_get", 200, "") EXCEPT
                      !.key = key, !.value = s[KvKey(key)].val]]

kv_set(s, key, value, f) ==
    [store |-> IF f.applied THEN RedisSet(s, KvKey(key), value) ELSE s,
     calls |-> <<f.exc>>,
     resp |-> IF f.exc # "ok"
              THEN Response("kv_set", StoreErrorStatus(f.exc), StoreErrorBody(f.exc))
              ELSE [Response("kv_set", 200, "") EXCEPT !.key = key, !.value = value]]

login(s, username, password, session_id, t, f1, f2) ==
    IF ~ValidCredentials(username, password)
    THEN [store |-> s, calls |-> <<>>,
          resp |-> Response("login", 401, "invalid credentials")]
    ELSE LET c == _create_session(s, username, session_id, t, f1, f2)
         IN  [store |-> c.store, calls |-> c.calls,
              resp |-> IF Raised(c.calls) # "ok"
                       THEN Response("login", LoginErrorStatus(Raised(c.calls)),
                                     StoreErrorBody(Raised(c.calls)))
                       ELSE [Response("login", 200, "logged in") EXCEPT
                               !.username = username, !.set_cookie = session_id]]

\* logout passes over redis.ConnectionError alone
logout(s, session_id, f) ==
    LET s1 == IF session_id # NoCookie /\ f.applied
              THEN _delete_session(s, session_id) ELSE s
        cs == IF session_id # NoCookie THEN <<f.exc>> ELSE <<>>
    IN  [store |-> s1, calls |-> cs,
         resp |-> IF Raised(cs) \in {"ok", "ConnectionError"}
                  THEN [Response("logout", 200, "logged out") EXCEPT !.delete_cookie = TRUE]
                  ELSE Response("logout", 500, Raised(cs))]

me(s, session_id, t, f) ==
    LET u == get_current_user(s, session_id, t, f)
    IN  [store |-> s, calls |-> u.calls, resp |-> u.resp]

ready(flag) ==
    IF flag THEN Response("ready", 200, "ready") ELSE Response("ready", 503, "not ready")

\* an assignment without "global _ready" would bind a local and leave the flag alone
ready_enable_local(flag) == [flag |-> flag, resp |-> Response("ready_enable", 200, "ready")]

ready_enable(flag) == [flag |-> TRUE, resp |-> Response("ready_enable", 200, "ready")]

ready_disable(flag) == [flag |-> FALSE, resp |-> Response("ready_disable", 200, "not ready")]

Min(a, b) == IF a < b THEN a ELSE b

(***************************************************************************)
(* Initial state: a process that has served nothing, over a fresh store.   *)
(***************************************************************************)
NoSess == [user |-> None, at |-> 0, out |-> FALSE]
Idle == [busy |-> FALSE, resp |-> NoResponse, calls |-> <<>>]
NoConn == [pc |-> [th \in Threads |-> "idle"], made |-> [th \in Threads |-> None],
           r |-> [th \in Threads |-> None], built |-> 0, late |-> FALSE]
NoStress == [pc |-> "idle", n |-> 0, seconds |-> 0, start |-> 0, end |-> 0, busy |-> 0]

Init ==
    /\ store = [k \in {} |-> [val |-> 0, exp |-> NoExp]]
    /\ now = 0
    /\ _ready = TRUE
    /\ _redis_client = None
    /\ req = NoRequest
    /\ resp = NoResponse
    /\ calls = <<>>
    /\ inflight = [w \in Workers |-> Idle]
    /\ issued = {}
    /\ sess = [t \in Tokens |-> NoSess]
    /\ lastPost = [k \in KvNames |-> None]
    /\ returned = <<>>
    /\ stress = NoStress
    /\ conn = NoConn

(***************************************************************************)
(* One action per endpoint                                                 *)
(***************************************************************************)
\* What every handler that reaches the store leaves behind.
Served(rq, out, usedStore) ==
    /\ req' = rq
    /\ resp' = out.resp
    /\ calls' = out.calls
    /\ store' = out.store
    /\ _redis_client' = IF usedStore THEN _get_redis(_redis_client) ELSE _redis_client
    /\ UNCHANGED conn

\* A handler that touches neither the store nor the flag.
Plain(rq, rs) ==
    /\ req' = rq
    /\ resp' = rs
    /\ calls' = <<>>
    /\ UNCHANGED <<store, _redis_client, conn>>

Counter(s) == IF VisitsKey \in DOMAIN s THEN s[VisitsKey].val ELSE 0

\* GET /visits, up to the return of r.incr: one store command.
VisitsCall(w, f) ==
    /\ ~inflight[w].busy
    /\ Counter(store) < MaxVisits
    /\ LET out == visits(store, now, f)
       IN  /\ store' = out.store
           /\ inflight' = [inflight EXCEPT ![w] =
                              [busy |-> TRUE, resp |-> out.resp, calls |-> out.calls]]
           /\ _redis_client' = _get_redis(_redis_client)
    /\ UNCHANGED <<now, _ready, req, resp, calls, issued, sess, lastPost, returned, stress,
                   conn>>

\* GET /visits: the response leaves the worker.
VisitsReturn(w) ==
    /\ inflight[w].busy
    /\ req' = Request("visits")
    /\ resp' = inflight[w].resp
    /\ calls' = inflight[w].calls
    /\ inflight' = [inflight EXCEPT ![w] = Idle]
    /\ returned' = IF inflight[w].resp.status = 200
                   THEN Append(returned, inflight[w].resp.visits) ELSE returned
    /\ UNCHANGED <<store, now, _ready, _redis_client, issued, sess, lastPost, stress, conn>>

KvGet(key, f) ==
    /\ Served([Request("kv_get") EXCEPT !.key = key], kv_get(store, key, now, f), TRUE)
    /\ UNCHANGED <<now, _ready, inflight, issued, sess, lastPost, returned, stress>>

KvSet(key, value, f) ==
    /\ LET out == kv_set(store, key, value, f)
       IN  /\ Served([Request("kv_set") EXCEPT !.key = key, !.value = value], out, TRUE)
           /\ lastPost' = IF out.resp.status = 200
                          THEN [lastPost EXCEPT ![key] = value] ELSE lastPost
    /\ UNCHANGED <<now, _ready, inflight, issued, sess, returned, stress>>

\* POST /login; session_id is what secrets.token_hex(16) returns, a token it
\* has not returned before.
Login(username, password, session_id, f1, f2) ==
    /\ session_id \notin issued
    /\ LET out == login(store, username, password, session_id, now, f1, f2)
           valid == ValidCredentials(username, password)
       IN  /\ Served([Request("login") EXCEPT !.username = username,
                                              !.password = password], out, valid)
           /\ issued' = IF valid THEN issued \cup {session_id} ELSE issued
           /\ sess' = IF out.resp.status = 200
                      THEN [sess EXCEPT ![session_id] =
                               [user |-> username, at |-> now, out |-> FALSE]]
                      ELSE sess
    /\ UNCHANGED <<now, _ready, inflight, lastPost, returned, stress>>

Logout(session_id, f) ==
    /\ LET out == logout(store, session_id, f)
       IN  /\ Served([Request("logout") EXCEPT !.cookie = session_id], out,
                     session_id # NoCookie)
           /\ sess' = IF session_id # NoCookie /\ f.applied
                      THEN [sess EXCEPT ![session_id].out = TRUE] ELSE sess
    /\ UNCHANGED <<now, _ready, inflight, issued, lastPost, returned, stress>>

Me(session_id, f) ==
    /\ Served([Request("me") EXCEPT !.cookie = session_id],
              me(store, session_id, now, f), session_id # NoCookie)
    /\ UNCHANGED <<now, _ready, inflight, issued, sess, lastPost, returned, stress>>

Ready ==
    /\ Plain(Request("ready"), ready(_ready))
    /\ UNCHANGED <<now, _ready, inflight, issued, sess, lastPost, returned, stress>>

ReadyEnable ==
    /\ Plain(Request("ready_enable"), ready_enable(_ready).resp)
    /\ _ready' = ready_enable(_ready).flag
    /\ UNCHANGED <<now, inflight, issued, sess, lastPost, returned, stress>>

ReadyDisable ==
    /\ Plain(Request("ready_disable"), ready_disable(_ready).resp)
    /\ _ready' = ready_disable(_ready).flag
    /\ UNCHANGED <<now, inflight, issued, sess, lastPost, returned, stress>>

\* GET /, /health, /config, /version, /info: no state read or written.
Introspection == {"root", "health", "config", "version", "info"}

Introspect(ep) ==
    /\ Plain(Request(ep), Response(ep, 200, ep))
    /\ UNCHANGED <<now, _ready, inflight, issued, sess, lastPost, returned, stress>>

\* Time passes between requests; the store drops what has expired.
Tick ==
    /\ now + TickStep <= MaxTime
    /\ now' = now + TickStep
    /\ store' = Purge(store, now')
    /\ req' = NoRequest
    /\ resp' = NoResponse
    /\ calls' = <<>>
    /\ UNCHANGED <<_ready, _redis_client, inflight, issued, sess, lastPost, returned,
                   stress, conn>>

(***************************************************************************)
(* GET /stress?seconds=N, a sync handler on a worker thread: the clamp,    *)
(* then the loop "while time.time() < end", one second of burning a step.  *)
(***************************************************************************)
StressInputs == (0 - StressSlack) .. (MAX_STRESS_SECONDS + StressSlack)

\* seconds = min(seconds, MAX_STRESS_SECONDS); end = time.time() + seconds
StressStart(n) ==
    /\ stress.pc = "idle"
    /\ now + MAX_STRESS_SECONDS <= StressHorizon
    /\ stress' = [pc |-> "loop", n |-> n, seconds |-> Min(n, MAX_STRESS_SECONDS),
                  start |-> now, end |-> now + Min(n, MAX_STRESS_SECONDS), busy |-> 0]
    /\ req' = [Request("stress") EXCEPT !.seconds = n]
    /\ resp' = NoResponse
    /\ calls' = <<>>
    /\ UNCHANGED <<store, now, _ready, _redis_client, inflight, issued, sess, lastPost,
                   returned, conn>>

\* the loop condition holds: another second is burnt
StressLoop ==
    /\ stress.pc = "loop"
    /\ now < stress.end
    /\ now' = now + 1
    /\ store' = Purge(store, now')
    /\ stress' = [stress EXCEPT !.busy = now' - stress.start]
    /\ UNCHANGED <<_ready, _redis_client, req, resp, calls, inflight, issued, sess,
                   lastPost, returned, conn>>

\* the loop condition fails: return {"stressed_seconds": seconds, ...}
StressReturn ==
    /\ stress.pc = "loop"
    /\ ~(now < stress.end)
    /\ stress' = [stress EXCEPT !.pc = "idle"]
    /\ resp' = [Response("stress", 200, "") EXCEPT !.stressed_seconds = stress.seconds]
    /\ UNCHANGED <<store, now, _ready, _redis_client, req, calls, inflight, issued, sess,
                   lastPost, returned, conn>>

(***************************************************************************)
(* _get_redis() step by step, as the interpreter may switch threads        *)
(* between the test, the constructor call, the assignment to the global    *)
(* and the read of the global for the return value.                        *)
(***************************************************************************)
Unchanged_but_handle ==
    UNCHANGED <<store, now, _ready, inflight, issued, sess, lastPost, returned, stress>>

\* if _redis_client is None
GetRedisTest(th) ==
    /\ conn.pc[th] = "idle"
    /\ conn' = [conn EXCEPT !.pc[th] =
                   IF NeedsHandle(_redis_client) THEN "construct" ELSE "return"]
    /\ UNCHANGED <<_redis_client, req, resp, calls>>
    /\ Unchanged_but_handle

\* redis.Redis(host=..., ...): a new object, not yet bound to the global
GetRedisConstruct(th) ==
    /\ conn.pc[th] = "construct"
    /\ conn.built < Len(HandleIds)
    /\ conn' = [conn EXCEPT !.pc[th] = "assign",
                            !.made[th] = HandleIds[conn.built + 1],
                            !.built = conn.built + 1,
                            !.late = conn.late \/ _redis_client # None]
    /\ UNCHANGED <<_redis_client, req, resp, calls>>
    /\ Unchanged_but_handle

\* _redis_client = <the new object>
GetRedisAssign(th) ==
    /\ conn.pc[th] = "assign"
    /\ _redis_client' = conn.made[th]
    /\ conn' = [conn EXCEPT !.pc[th] = "return"]
    /\ UNCHANGED <<req, resp, calls>>
    /\ Unchanged_but_handle

\* return _redis_client
GetRedisReturn(th) ==
    /\ conn.pc[th] = "return"
    /\ conn' = [conn EXCEPT !.pc[th] = "use", !.r[th] = _redis_client]
    /\ UNCHANGED <<_redis_client, req, resp, calls>>
    /\ Unchanged_but_handle

\* The caller's store command on the handle it was given, and its answer:
\* r.get in kv_get on the event loop, r.get in _get_session on a pool thread.
StoreCommand(th) ==
    /\ conn.pc[th] = "use"
    /\ conn' = [conn EXCEPT !.pc[th] = "idle", !.made[th] = None]
    /\ LET out == IF th = "loop" THEN kv_get(store, "a", now, Ok)
                  ELSE me(store, "t1", now, Ok)
       IN  /\ req' = IF th = "loop" THEN [Request("kv_get") EXCEPT !.key = "a"]
                     ELSE [Request("me") EXCEPT !.cookie = "t1"]
           /\ resp' = out.resp
           /\ calls' = out.calls
    /\ UNCHANGED _redis_client
    /\ Unchanged_but_handle

Cookies == Tokens \cup {NoCookie}

(***************************************************************************)
(* Specifications. The endpoints share nothing but the store, the clock,   *)
(* the flag and the handle, so each specification runs one group of        *)
(* endpoints over its full inputs and the others over one input each.      *)
(***************************************************************************)
\* Sessions, store available: every store call returns.
Next ==
    \/ \E u \in Usernames, p \in Passwords, t \in Tokens : Login(u, p, t, Ok, Ok)
    \/ \E c \in Cookies : Logout(c, Ok)
    \/ \E c \in Cookies : Me(c, Ok)
    \/ \E k \in {"t1"}, v \in {"first"} : KvSet(k, v, Ok)
    \/ \E w \in {"w1"} : VisitsCall(w, Ok)
    \/ \E w \in {"w1"} : VisitsReturn(w)
    \/ Tick

Spec == Init /\ [][Next]_vars

\* Key-value proxy, visit counter and readiness, store available; two
\* workers serve /visits concurrently.
NextKv ==
    \/ \E k \in KvNames, v \in KvValues : KvSet(k, v, Ok)
    \/ \E k \in KvNames : KvGet(k, Ok)
    \/ \E w \in Workers : VisitsCall(w, Ok)
    \/ \E w \in Workers : VisitsReturn(w)
    \/ Ready
    \/ ReadyEnable
    \/ ReadyDisable
    \/ \E ep \in Introspection : Introspect(ep)
    \/ \E t \in {"t1"} : Login("admin", "admin", t, Ok, Ok)
    \/ \E c \in {"t1"} : Logout(c, Ok)
    \/ \E c \in {"t1"} : Me(c, Ok)
    \/ Tick

KvSpec == Init /\ [][NextKv]_vars

\* Every endpoint that reaches the store, each store call with any outcome.
NextFault ==
    \/ \E f \in Faults : VisitsCall("w1", f)
    \/ VisitsReturn("w1")
    \/ \E f \in Faults : KvGet("a", f)
    \/ \E f \in Faults : KvSet("a", "first", f)
    \/ \E p \in {"admin", "wrong"}, f1 \in Faults, f2 \in Faults :
          Login("admin", p, "t1", f1, f2)
    \/ \E c \in Cookies, f \in Faults : Logout(c, f)
    \/ \E c \in Cookies, f \in Faults : Me(c, f)

FaultSpec == Init /\ [][NextFault]_vars

\* The stress endpoint alone; the worker thread keeps running until it returns.
NextStress ==
    \/ \E n \in StressInputs : StressStart(n)
    \/ StressLoop
    \/ StressReturn

StressSpec == Init /\ [][NextStress]_vars /\ WF_vars(StressLoop) /\ WF_vars(StressReturn)

\* The store handle under concurrent first accesses.
NextHandle ==
    \/ \E th \in Threads : GetRedisTest(th)
    \/ \E th \in Threads : GetRedisConstruct(th)
    \/ \E th \in Threads : GetRedisAssign(th)
    \/ \E th \in Threads : GetRedisReturn(th)
    \/ \E th \in Threads : StoreCommand(th)

HandleSpec == Init /\ [][NextHandle]_vars

(***************************************************************************)
(* Properties                                                              *)
(***************************************************************************)
LoginStep == \E u \in Usernames, p \in Passwords, t \in Tokens : Login(u, p, t, Ok, Ok)

CredentialsTable == {<<"admin", "admin">>, <<"user", "user">>}

LoginAnswer ==
    resp.ep = "login" =>
        IF <<req.username, req.password>> \in CredentialsTable
        THEN /\ resp.status = 200
             /\ resp.set_cookie \in Tokens
             /\ resp.username = req.username
             /\ me(store, resp.set_cookie, now, Ok).resp.status = 200
             /\ me(store, resp.set_cookie, now, Ok).resp.username = req.username
        ELSE /\ resp.status = 401
             /\ resp.set_cookie = NoCookie
             /\ calls = <<>>

\* C1: with the store available, a login with a pair of the credentials table
\* answers 200, sets the session_id cookie, and GET /me with that cookie
\* answers 200 with the same username; a login with any other pair answers
\* 401, sets no cookie, makes no store call and leaves the store as it was.
C1_LoginContract ==
    /\ []LoginAnswer
    /\ [][(LoginStep /\ resp'.status = 401) => (store' = store /\ sess' = sess)]_vars

C1_Witness ==
    /\ resp.ep = "login"
    /\ resp.status = 200
    /\ req.username = "user"
    /\ resp.set_cookie = "t2"
    /\ sess["t1"].user = "admin"

\* The session the history says token t stands for: issued by a successful
\* login, not logged out since, SESSION_TTL not yet elapsed.
Active(t) ==
    /\ t # NoCookie
    /\ sess[t].user # None
    /\ ~sess[t].out
    /\ now < sess[t].at + SESSION_TTL

\* C2: with the store available, GET /me presenting token t answers 200 with
\* username u exactly when a login of u issued t and t has since been neither
\* logged out nor expired; without cookie or with any other token it answers 401.
C2_MeIffActiveSession ==
    resp.ep = "me" =>
        IF Active(req.cookie)
        THEN resp.status = 200 /\ resp.username = sess[req.cookie].user
        ELSE resp.status = 401

C2_Witness ==
    /\ resp.ep = "me"
    /\ resp.status = 200
    /\ req.cookie = "t1"
    /\ sess["t2"].user # None
    /\ sess["t2"].out

\* C3: POST /logout always answers 200 "logged out" and clears the cookie,
\* whatever the outcome of the store call that deletes the session.
C3_LogoutAlwaysSucceeds ==
    resp.ep = "logout" =>
        resp.status = 200 /\ resp.body = "logged out" /\ resp.delete_cookie

\* C4: when the store call of GET /visits, GET /kv/{key}, POST /kv/{key} or of
\* a POST /login with valid credentials raises a connection error, the answer
\* is 503.
C4_ConnectionErrorIs503 ==
    (resp.ep \in {"visits", "kv_get", "kv_set", "login"} /\ Raised(calls) = "ConnectionError")
        => resp.status = 503

C4_Witness ==
    /\ resp.ep = "login"
    /\ calls = <<"ok", "ConnectionError">>
    /\ resp.status = 503

\* C5: for every endpoint that calls the store (visits, kv, login, me), a
\* store call that fails by connection failure or by timeout makes the
\* request answer 503 after one attempt.
C5_FailureOrTimeoutIs503 ==
    (/\ resp.ep \in {"visits", "kv_get", "kv_set", "login", "me"}
     /\ Raised(calls) \in {"ConnectionError", "TimeoutError"})
        => resp.status = 503

\* C6: with the store available, GET /kv/{k} answers 200 with the value of the
\* last POST /kv/{k} answered 200, whatever was written to other keys, and 404
\* if there was none.
C6_LastWriteWins ==
    resp.ep = "kv_get" =>
        IF lastPost[req.key] = None
        THEN resp.status = 404
        ELSE resp.status = 200 /\ resp.key = req.key /\ resp.value = lastPost[req.key]

C6_Witness ==
    /\ resp.ep = "kv_get"
    /\ req.key = "a"
    /\ resp.value = "second"
    /\ lastPost["t1"] = "first"
    /\ now > 0

Busy == {w \in Workers : inflight[w].busy}

\* C7: from a fresh counter, with the store available, the counts the /visits
\* calls made so far have obtained (returned already or still on their way)
\* are exactly 1 .. number of calls, each once: the k-th call to reach the
\* store gets k, no two calls get the same count, no increment is lost.
C7_VisitsCountEachOnce ==
    /\ \A i, j \in DOMAIN returned : i # j => returned[i] # returned[j]
    /\ \A w \in Busy : \A i \in DOMAIN returned : inflight[w].resp.visits # returned[i]
    /\ \A v, w \in Busy : v # w => inflight[v].resp.visits # inflight[w].resp.visits
    /\ {returned[i] : i \in DOMAIN returned} \cup {inflight[w].resp.visits : w \in Busy}
          = 1 .. (Len(returned) + Cardinality(Busy))
    /\ Counter(store) = Len(returned) + Cardinality(Busy)
    /\ resp.ep = "visits" => resp.status = 200 /\ resp.visits = returned[Len(returned)]
    /\ Busy = {} => \A i \in DOMAIN returned : returned[i] <= Len(returned)

C7_Witness ==
    /\ returned = <<2, 1>>
    /\ Cardinality(Busy) = 1

ReadyAnswer ==
    /\ resp.ep = "ready" =>
          \/ _ready /\ resp.status = 200 /\ resp.body = "ready"
          \/ ~_ready /\ resp.status = 503 /\ resp.body = "not ready"
    /\ resp.ep = "ready_enable" => _ready /\ resp.status = 200
    /\ resp.ep = "ready_disable" => ~_ready /\ resp.status = 200

\* C8: the readiness flag is true at process start, a step changes it only if
\* it is POST /ready/enable (to true) or POST /ready/disable (to false), and
\* GET /ready answers 200 "ready" exactly when it is true, 503 "not ready"
\* exactly when it is false.
C8_ReadinessFlag ==
    /\ _ready = TRUE
    /\ []ReadyAnswer
    /\ [][(_ready' # _ready) =>
            \/ ReadyEnable /\ _ready'
            \/ ReadyDisable /\ ~_ready']_vars

C8_Witness ==
    /\ resp.ep = "ready"
    /\ resp.status = 503
    /\ _redis_client # None

Expiry(t) == sess[t].at + SESSION_TTL

SessionFixedTTL ==
    \A t \in Tokens : sess[t].user # None =>
        /\ SessionKey(t) \in DOMAIN store => store[SessionKey(t)].exp = Expiry(t)
        /\ now >= Expiry(t) =>
              /\ _get_session(store, t, now) = NoSession
              /\ me(store, t, now, Ok).resp.status = 401
        /\ (now < Expiry(t) /\ ~sess[t].out) =>
              _get_session(store, t, now) = [username |-> sess[t].user]

\* C9: a session created by a successful login carries the expiration
\* login time + SESSION_TTL, no later step changes the expiration of a
\* session that exists, and once SESSION_TTL has elapsed since the login the
\* session is absent, as after a delete.
C9_SessionExpiresOnce ==
    /\ []SessionFixedTTL
    /\ [][\A t \in Tokens :
            (SessionKey(t) \in DOMAIN store /\ SessionKey(t) \in DOMAIN store')
                => store'[SessionKey(t)].exp = store[SessionKey(t)].exp]_vars

C9_Witness ==
    /\ resp.ep = "me"
    /\ resp.status = 401
    /\ req.cookie \in Tokens
    /\ sess[req.cookie].user # None
    /\ ~sess[req.cookie].out
    /\ now >= Expiry(req.cookie)

\* C10: for every integer N, GET /stress?seconds=N returns stressed_seconds
\* = min(N, MAX_STRESS_SECONDS), and that is the number of seconds its loop ran.
C10_StressedSecondsIsLoopTime ==
    (resp.ep = "stress" /\ stress.pc = "idle") =>
        /\ resp.stressed_seconds = Min(req.seconds, MAX_STRESS_SECONDS)
        /\ resp.stressed_seconds = stress.busy

\* C11: whenever POST /login answers a failure (401, 503 or 500), the store
\* holds no session record beyond those of the logins answered 200, also when
\* the store fails between the write of the record and the setting of its
\* expiration.
C11_LoginFailsAtomically ==
    (resp.ep = "login" /\ resp.status # 200) =>
        \A t \in Tokens : SessionKey(t) \in DOMAIN store => sess[t].user # None

Built == {HandleIds[i] : i \in 1 .. conn.built}

Constructing == {th \in Threads : conn.pc[th] \in {"construct", "assign"}}

\* C12 as stated: the handle is created once per process under any
\* interleaving of the event loop and the pool threads: the constructor never
\* runs when a handle exists, and every request uses a constructed handle.
C12_HandleCreatedOnce ==
    /\ conn.built <= 1
    /\ ~conn.late
    /\ \A th \in Threads : conn.pc[th] = "use" => conn.r[th] \in Built

HandleUsable ==
    /\ \A th \in Threads : conn.pc[th] = "use" => conn.r[th] \in Built
    /\ _redis_client # None => _redis_client \in Built
    /\ conn.built <= Cardinality(Threads)
    /\ (conn.built > 0 /\ Constructing = {}) => _redis_client # None

\* C12 as amended: every request uses a fully constructed handle; a thread
\* starts the constructor only if it found no handle at its test; and once a
\* handle is stored and no thread is between its test and its assignment, no
\* further handle is built and the stored one stays. Threads whose tests all
\* precede the first assignment each build one.
C12_HandleReusedOnceSettled ==
    /\ []HandleUsable
    /\ [][\A th \in Threads :
            (conn.pc[th] = "idle" /\ conn'.pc[th] = "construct") => _redis_client = None]_vars
    /\ [][(_redis_client # None /\ Constructing = {}) =>
            (_redis_client' = _redis_client /\ conn'.built = conn.built)]_vars

C12_Witness ==
    /\ conn.built = 2
    /\ Constructing = {}
    /\ \E th \in Threads : conn.pc[th] = "use" /\ conn.r[th] # _redis_client

====
